---- MODULE Spec2Model ----
(***************************************************************************)
(* Model of model_zoo/model.py: class BaseModel, a thin wrapper around a   *)
(* Keras model.  One wrapper instance is modelled; every method call is    *)
(* one atomic step (the wrapper is single-threaded).  The training engine  *)
(* (fit, fit_generator, predict, compile) is external: the model records   *)
(* the arguments each engine routine receives.                             *)
(*                                                                         *)
(* Data is described by what construct() reads of it: whether it is a      *)
(* tensor, its rank and its dtype (of a list, those of its first element). *)
(* A shape descriptor is the rank and dtype of a DeferredTensor.  The      *)
(* targets y and eval_data pass through train() to the engine untouched    *)
(* and are left out, as are the arguments of the callback constructors.    *)
(* Counts (steps, sizes) are None or naturals, batch_size is at least 1,   *)
(* and "/" is Python 3's true division.                                    *)
(***************************************************************************)
EXTENDS Integers, Sequences, FiniteSets, TLC

VARIABLES
    config,            \* self.config
    batch_size,        \* self.batch_size
    epochs,            \* self.epochs
    steps_per_epoch,   \* self.steps_per_epoch
    validation_steps,  \* self.validation_steps
    shaped,            \* self.shaped
    built,             \* self.built
    inputs,            \* self.inputs        (<<>> while unset)
    outputs,           \* self.outputs       (<<>> while unset)
    input_names,       \* self.input_names   (<<>> while unset)
    output_names,      \* self.output_names  (<<>> while unset)
    compiled,          \* what the last compile() received (<<>> before any)
    atInit,            \* the fields init() saw in the last method call (<<>> if it made none)
    initCalls,         \* number of init() invocations so far
    callCalls,         \* number of call() invocations so far
    engine,            \* the engine routine the last method call invoked
    last,              \* the last method called on the wrapper and how it ended
    nOps               \* number of method calls made so far

vars == <<config, batch_size, epochs, steps_per_epoch, validation_steps,
          shaped, built, inputs, outputs, input_names, output_names,
          compiled, atInit, initCalls, callCalls, engine,
          last, nOps>>

cfgVars == <<config, batch_size, epochs, steps_per_epoch, validation_steps>>
shapeVars == <<inputs, outputs, input_names, output_names>>

----------------------------------------------------------------------------
(* Bounds of the model *)
MaxOps == 2        \* method calls per behaviour
MaxSteps == 2      \* the value of a configured steps_per_epoch / validation_steps
MaxSize == 2       \* largest train_size / eval_size
MaxBatch == 2      \* largest batch_size

(* Python values *)
NoneVal == -1      \* None, where an integer may also stand
Absent == -2       \* a keyword argument that was not passed
DefaultSize == 0   \* kwargs.get('train_size', 0), kwargs.get('eval_size', 0)
DefaultValidationSteps == 1
DefaultLearningRate == 10       \* 0.01, in thousandths

FloatX == "float32"             \* K.floatx()
ShapeDefaultDType == "float32"  \* tf.float32
RandDType == "float64"          \* dtype of np.random.rand(...)
NoDType == "None"

Truthy(v) == v # NoneVal /\ v # 0     \* Python truth value of an int or None

DataDTypes == {"float64", "int32"}
\* the input data x: an array or tensor, or the first element of a list of them
Ranks == {1, 2}     \* array ranks of the data and of the declared shapes
Data == [isTensor : BOOLEAN, rank : Ranks, dtype : DataDTypes]

\* a step option of the configuration: None, 0 or a number of steps
StepOptions == {NoneVal, 0, MaxSteps}
Sizes == {Absent} \cup (0..MaxSize)

\* The configurations a wrapper is built with: the step options vary with the
\* callback options off, the callback options vary with the step options fixed,
\* and one configuration sets the learning rate (5 thousandths).
StepConfigs == [batch_size : 1..MaxBatch,
                epochs : {1},
                steps_per_epoch : StepOptions,
                validation_steps : StepOptions,
                early_stop_enable : {FALSE},
                tensor_board_enable : {FALSE},
                checkpoint_enable : {FALSE},
                learning_rate : {Absent}]
CallbackConfigs == [batch_size : {1},
                    epochs : {1},
                    steps_per_epoch : {1},
                    validation_steps : {NoneVal},
                    early_stop_enable : BOOLEAN,
                    tensor_board_enable : BOOLEAN,
                    checkpoint_enable : BOOLEAN,
                    learning_rate : {Absent}]
RateConfigs == [batch_size : {1},
                epochs : {1},
                steps_per_epoch : {1},
                validation_steps : {NoneVal},
                early_stop_enable : {FALSE},
                tensor_board_enable : {FALSE},
                checkpoint_enable : {FALSE},
                learning_rate : {5}]
Configs == StepConfigs \cup CallbackConfigs \cup RateConfigs

----------------------------------------------------------------------------
(* Helpers *)

\* dict.get(key, default)
Get(v, default) == IF v = Absent THEN default ELSE v

\* a / b truncated instead of rounded up
CeilAsFloor(a, b) == a \div b

\* math.ceil(a / b) for integers a and b > 0
Ceil(a, b) == -((-a) \div b)

\* base_layer.DeferredTensor(shape=(None for _ in v.shape), dtype=...)
DeferredTensor(rank, dtype) == [rank |-> rank, dtype |-> dtype]

\* ['input_%d' % (i + 1) for i in range(n)]
Names(prefix, n) == [i \in 1..n |-> <<prefix, i>>]

\* the placeholder for "nothing recorded"
NoCall == [op |-> "none", result |-> "none", train_size |-> Absent,
           eval_size |-> Absent, pulled |-> 0, ret |-> <<>>]
NoEngine == [routine |-> "none", batch_size |-> NoneVal, epochs |-> NoneVal,
             steps_per_epoch |-> NoneVal, validation_steps |-> NoneVal,
             callbacks |-> <<>>, genPos |-> NoneVal]

----------------------------------------------------------------------------
(* Pure parts of the methods *)

\* optimizer(): tf.train.GradientDescentOptimizer(config.get('learning_rate', 0.01))
Optimizer(cfg) == [kind |-> "GradientDescentOptimizer",
                   learning_rate |-> Get(cfg.learning_rate, DefaultLearningRate)]

\* callbacks() with the checkpoint callback tied to the tensorboard flag
CallbacksWrongFlag(cfg) ==
    LET cbs0 == <<"BaseLogger">>
        cbs1 == IF cfg.early_stop_enable THEN Append(cbs0, "EarlyStopping") ELSE cbs0
        cbs2 == IF cfg.tensor_board_enable THEN Append(cbs1, "TensorBoard") ELSE cbs1
        cbs3 == IF cfg.tensor_board_enable THEN Append(cbs2, "ModelCheckpoint") ELSE cbs2
    IN  cbs3

\* callbacks(): the kinds of the callbacks of the assembled list, in order
Callbacks(cfg) ==
    LET cbs0 == <<"BaseLogger">>
        cbs1 == IF cfg.early_stop_enable THEN Append(cbs0, "EarlyStopping") ELSE cbs0
        cbs2 == IF cfg.tensor_board_enable THEN Append(cbs1, "TensorBoard") ELSE cbs1
        cbs3 == IF cfg.checkpoint_enable THEN Append(cbs2, "ModelCheckpoint") ELSE cbs2
    IN  cbs3

\* dtype of call()'s result on the one-example slice: call() is the identity,
\* a tensor is cast to floatx when floating, anything else is converted to floatx
OutDType(x) ==
    IF x.isTensor
    THEN IF x.dtype \in {"float64", "float32"} THEN FloatX ELSE x.dtype
    ELSE FloatX

\* construct() inferring the inputs whether or not the wrapper is shaped
ConstructInputsAlways(sh, cur, x) == <<DeferredTensor(x.rank, x.dtype)>>

\* construct(): self.inputs after the call
ConstructInputs(sh, cur, x) ==
    IF ~sh THEN <<DeferredTensor(x.rank, x.dtype)>> ELSE cur

\* construct() inferring the outputs whether or not the wrapper is shaped
ConstructOutputsAlways(sh, cur, x) == <<DeferredTensor(x.rank, OutDType(x))>>

\* construct(): self.outputs after the call
ConstructOutputs(sh, cur, x) ==
    IF ~sh THEN <<DeferredTensor(x.rank, OutDType(x))>> ELSE cur

\* construct(): self.input_names / self.output_names after the call
ConstructNames(sh, cur, prefix, values) ==
    IF ~sh THEN Names(prefix, Len(values)) ELSE cur

\* construct(): number of call() invocations after the call
ConstructCalls(sh, n) == IF ~sh THEN n + 1 ELSE n

\* construct() calling init() only inside the "if not self.shaped" block
ConstructInitsWhenUnshaped(sh, n) == IF ~sh THEN n + 1 ELSE n

\* construct(): number of init() invocations after the call
ConstructInits(sh, n) == n + 1

\* train(), generator mode: the local steps_per_epoch before the raise
StepsPerEpoch(spe, train_size, bs) ==
    IF ~Truthy(spe) /\ Truthy(train_size) THEN Ceil(train_size, bs) ELSE spe

\* the raise guarded by "steps_per_epoch is None" instead of "not steps_per_epoch"
StepsErrorNoneOnly(steps) == steps = NoneVal

\* train(), generator mode: the raise
StepsError(steps) == ~Truthy(steps)

\* validation_steps without the default of 1
ValidationStepsNoDefault(vs, eval_size, bs) ==
    IF ~Truthy(vs) /\ Truthy(eval_size) THEN Ceil(eval_size, bs) ELSE vs

\* train(), generator mode: the local validation_steps
ValidationSteps(vs, eval_size, bs) ==
    LET v == IF ~Truthy(vs) /\ Truthy(eval_size) THEN Ceil(eval_size, bs) ELSE vs
    IN  IF ~Truthy(v) THEN DefaultValidationSteps ELSE v

\* train() taking a batch only when construct() needs one
PulledWhenUnshaped(sh) == IF sh THEN 0 ELSE 1

\* train(), generator mode: items taken from the generator by x, y = next(train_data)
Pulled(sh) == 1

\* infer(): the batch size handed to predict
InferBatchSize(bs, own) == IF ~Truthy(bs) THEN own ELSE bs

----------------------------------------------------------------------------
(* State changes shared by the methods *)

\* train() storing the computed step counts in the wrapper
StoreSteps(steps, vsteps) ==
    /\ steps_per_epoch' = steps
    /\ validation_steps' = vsteps
    /\ UNCHANGED <<config, batch_size, epochs>>

\* the fields of the configuration; no method assigns them
KeepConfig(steps, vsteps) == UNCHANGED cfgVars

\* construct(inputs), with init() and the compile() it makes
Construct(x) ==
    /\ inputs' = ConstructInputs(shaped, inputs, x)
    /\ outputs' = ConstructOutputs(shaped, outputs, x)
    /\ input_names' = ConstructNames(shaped, input_names, "input", inputs')
    /\ output_names' = ConstructNames(shaped, output_names, "output", outputs')
    /\ callCalls' = ConstructCalls(shaped, callCalls)
    /\ shaped' = TRUE
    /\ built' = TRUE
    /\ initCalls' = ConstructInits(shaped, initCalls)
    /\ IF initCalls' # initCalls
       THEN /\ atInit' = <<[shaped |-> shaped', built |-> built',
                            inputs |-> inputs', outputs |-> outputs',
                            input_names |-> input_names',
                            output_names |-> output_names']>>
            /\ compiled' = <<[optimizer |-> Optimizer(config), loss |-> "mse"]>>
       ELSE /\ atInit' = <<>>
            /\ UNCHANGED compiled

Count == /\ nOps < MaxOps
         /\ nOps' = nOps + 1

----------------------------------------------------------------------------
(* The methods *)

\* shape(inputs_shape, output_shape, dtype); a rank of 0 is a shape not given
Shape(inRank, outRank, dtype) ==
    LET dt == IF dtype = NoDType THEN ShapeDefaultDType ELSE dtype IN
    /\ Count
    /\ IF inRank > 0
       THEN /\ inputs' = <<DeferredTensor(inRank, dt)>>
            /\ input_names' = Names("input", 1)
       ELSE UNCHANGED <<inputs, input_names>>
    /\ IF outRank > 0
       THEN /\ outputs' = <<DeferredTensor(outRank, RandDType)>>
            /\ output_names' = Names("output", 1)
       ELSE UNCHANGED <<outputs, output_names>>
    /\ shaped' = TRUE
    /\ last' = [NoCall EXCEPT !.op = "shape", !.result = "ok"]
    /\ atInit' = <<>>
    /\ engine' = NoEngine
    /\ UNCHANGED <<cfgVars, built, compiled, initCalls, callCalls>>

\* construct(inputs) called directly
ConstructOp(x) ==
    /\ Count
    /\ Construct(x)
    /\ last' = [NoCall EXCEPT !.op = "construct", !.result = "ok"]
    /\ engine' = NoEngine
    /\ UNCHANGED cfgVars

\* train(train_data, eval_data) with use_generator false; x is train_data[0]
TrainArray(x) ==
    /\ Count
    /\ Construct(x)
    /\ engine' = [NoEngine EXCEPT !.routine = "fit",
                                  !.batch_size = batch_size,
                                  !.epochs = epochs,
                                  !.callbacks = Callbacks(config)]
    /\ last' = [NoCall EXCEPT !.op = "train", !.result = "ok"]
    /\ UNCHANGED cfgVars

\* train(train_data, eval_data, use_generator=True, train_size=, eval_size=);
\* train_data is a generator that yields the batch x first
TrainGenerator(x, train_size, eval_size) ==
    LET pulled == Pulled(shaped)
        steps == StepsPerEpoch(steps_per_epoch, Get(train_size, DefaultSize), batch_size)
        vsteps == ValidationSteps(validation_steps, Get(eval_size, DefaultSize), batch_size)
    IN
    /\ Count
    /\ Construct(x)
    /\ KeepConfig(steps, vsteps)
    /\ IF StepsError(steps)
       THEN /\ last' = [NoCall EXCEPT !.op = "train_generator",
                                      !.result = "ConfigError",
                                      !.train_size = train_size,
                                      !.eval_size = eval_size,
                                      !.pulled = pulled]
            /\ engine' = NoEngine
       ELSE /\ engine' = [NoEngine EXCEPT !.routine = "fit_generator",
                                          !.steps_per_epoch = steps,
                                          !.epochs = epochs,
                                          !.validation_steps = vsteps,
                                          !.callbacks = Callbacks(config),
                                          !.genPos = pulled]
            /\ last' = [NoCall EXCEPT !.op = "train_generator",
                                      !.result = "ok",
                                      !.train_size = train_size,
                                      !.eval_size = eval_size,
                                      !.pulled = pulled]

\* infer(test_data, batch_size)
Infer(bs) ==
    /\ Count
    /\ engine' = [NoEngine EXCEPT !.routine = "predict",
                                  !.batch_size = InferBatchSize(bs, batch_size)]
    /\ last' = [NoCall EXCEPT !.op = "infer", !.result = "ok"]
    /\ atInit' = <<>>
    /\ UNCHANGED <<cfgVars, shaped, built, shapeVars, compiled,
                   initCalls, callCalls>>

\* callbacks() called directly
CallbacksOp ==
    /\ Count
    /\ last' = [NoCall EXCEPT !.op = "callbacks", !.result = "ok",
                              !.ret = Callbacks(config)]
    /\ atInit' = <<>>
    /\ engine' = NoEngine
    /\ UNCHANGED <<cfgVars, shaped, built, shapeVars, compiled,
                   initCalls, callCalls>>

\* optimizer() called directly
OptimizerOp ==
    /\ Count
    /\ last' = [NoCall EXCEPT !.op = "optimizer", !.result = "ok",
                              !.ret = <<Optimizer(config)>>]
    /\ atInit' = <<>>
    /\ engine' = NoEngine
    /\ UNCHANGED <<cfgVars, shaped, built, shapeVars, compiled,
                   initCalls, callCalls>>

----------------------------------------------------------------------------
\* __init__(config)
Init ==
    /\ config \in Configs
    /\ batch_size = config.batch_size
    /\ epochs = config.epochs
    /\ steps_per_epoch = config.steps_per_epoch
    /\ validation_steps = config.validation_steps
    /\ shaped = FALSE
    /\ built = FALSE
    /\ inputs = <<>>
    /\ outputs = <<>>
    /\ input_names = <<>>
    /\ output_names = <<>>
    /\ compiled = <<>>
    /\ atInit = <<>>
    /\ initCalls = 0
    /\ callCalls = 0
    /\ engine = NoEngine
    /\ last = NoCall
    /\ nOps = 0

ShapeDTypes == {NoDType, "int32"}

Next ==
    \/ \E i \in {0} \cup Ranks, o \in {0} \cup Ranks, d \in ShapeDTypes : Shape(i, o, d)
    \/ \E x \in Data : ConstructOp(x)
    \/ \E x \in Data : TrainArray(x)
    \/ \E x \in Data, ts \in Sizes, es \in Sizes : TrainGenerator(x, ts, es)
    \/ \E bs \in {NoneVal} \cup (0..MaxBatch) : Infer(bs)
    \/ CallbacksOp
    \/ OptimizerOp

Spec == Init /\ [][Next]_vars

----------------------------------------------------------------------------
(* Properties *)

ConstructOps == {"construct", "train", "train_generator"}

\* the local train_size / eval_size of the last generator-mode train()
LastTrainSize == Get(last.train_size, DefaultSize)
LastEvalSize == Get(last.eval_size, DefaultSize)

\* n = ceil(a / b), stated without the division
IsCeil(n, a, b) == n * b >= a /\ (n - 1) * b < a

\* C1: a construct() made while shaped is true (directly or inside train())
\* does not invoke call() and leaves inputs, outputs, input_names and
\* output_names as they were, whatever data it is given.
ConstructWhenShapedInfersNothing ==
    [][(shaped /\ last'.op \in ConstructOps)
         => (callCalls' = callCalls /\ UNCHANGED shapeVars)]_vars

\* C1 witness: construct() ran on a wrapper that shape() had shaped, so call()
\* never ran
ConstructAfterShapeReached ==
    /\ last.op = "construct"
    /\ callCalls = 0
    /\ inputs # <<>>
    /\ outputs # <<>>

\* C2: a generator-mode train() with steps_per_epoch unset (None or 0) and
\* train_size absent or 0 ends in the configuration error and does not invoke
\* fit_generator.
NoStepsIsConfigError ==
    (/\ last.op = "train_generator"
     /\ ~Truthy(steps_per_epoch)
     /\ ~Truthy(LastTrainSize))
    => (last.result = "ConfigError" /\ engine.routine = "none")

\* C2 witness: the error was raised with steps_per_epoch None and no train_size
ConfigErrorReached ==
    /\ last.op = "train_generator"
    /\ last.result = "ConfigError"
    /\ steps_per_epoch = NoneVal
    /\ last.train_size = Absent

\* C3: fit_generator receives the configured steps_per_epoch when it is set,
\* whatever train_size is, and ceil(train_size / batch_size) otherwise, for
\* every positive train_size; the value is at least 1; 100 / 10 gives 10.
StepsPerEpochPassed ==
    /\ last.op = "train_generator" =>
          /\ Truthy(steps_per_epoch) =>
                /\ engine.routine = "fit_generator"
                /\ engine.steps_per_epoch = steps_per_epoch
          /\ (~Truthy(steps_per_epoch) /\ LastTrainSize >= 1) =>
                /\ engine.routine = "fit_generator"
                /\ IsCeil(engine.steps_per_epoch, LastTrainSize, batch_size)
          /\ engine.routine = "fit_generator" => engine.steps_per_epoch >= 1
    /\ StepsPerEpoch(NoneVal, 100, 10) = 10
    /\ StepsPerEpoch(0, 100, 10) = 10

\* C3 witness: steps_per_epoch was computed from a train_size that is not a
\* multiple of batch_size
ComputedStepsReached ==
    /\ engine.routine = "fit_generator"
    /\ ~Truthy(steps_per_epoch)
    /\ last.train_size = 1
    /\ batch_size = 2
    /\ engine.steps_per_epoch = 1

\* C4: fit_generator receives the configured validation_steps when it is set,
\* otherwise ceil(eval_size / batch_size) when eval_size is positive, otherwise
\* 1; train() fails only for the missing steps_per_epoch, never for a missing
\* validation_steps or eval_size.
ValidationStepsPassed ==
    last.op = "train_generator" =>
       /\ last.result = "ConfigError" =>
             (~Truthy(steps_per_epoch) /\ ~Truthy(LastTrainSize))
       /\ last.result # "ConfigError" =>
             /\ engine.routine = "fit_generator"
             /\ Truthy(validation_steps) =>
                   engine.validation_steps = validation_steps
             /\ (~Truthy(validation_steps) /\ LastEvalSize >= 1) =>
                   IsCeil(engine.validation_steps, LastEvalSize, batch_size)
             /\ (~Truthy(validation_steps) /\ ~Truthy(LastEvalSize)) =>
                   engine.validation_steps = 1

\* C4 witness: neither validation_steps nor eval_size was there and training
\* went on with 1
DefaultValidationStepsReached ==
    /\ engine.routine = "fit_generator"
    /\ validation_steps = NoneVal
    /\ last.eval_size = Absent
    /\ engine.validation_steps = 1

\* the callbacks the flags of cfg ask for, in the order logger, early stop,
\* tensorboard, checkpoint
Enabled(cfg, kind) ==
    \/ kind = "BaseLogger"
    \/ kind = "EarlyStopping" /\ cfg.early_stop_enable
    \/ kind = "TensorBoard" /\ cfg.tensor_board_enable
    \/ kind = "ModelCheckpoint" /\ cfg.checkpoint_enable
CallbackOrder == <<"BaseLogger", "EarlyStopping", "TensorBoard", "ModelCheckpoint">>
Occurrences(cbs, kind) == Cardinality({i \in 1..Len(cbs) : cbs[i] = kind})
WellAssembled(cbs) ==
    /\ Len(cbs) >= 1
    /\ cbs[1] = "BaseLogger"
    /\ \A k \in 1..4 :
          Occurrences(cbs, CallbackOrder[k]) =
             IF Enabled(config, CallbackOrder[k]) THEN 1 ELSE 0
    /\ \A i, j \in 1..Len(cbs) :
          i < j => \E k, l \in 1..4 :
                      k < l /\ cbs[i] = CallbackOrder[k] /\ cbs[j] = CallbackOrder[l]

\* C5: the list callbacks() returns, and the list both training modes hand to
\* the engine, holds one base logger first, then one callback per enabled flag
\* and none for a disabled one, in the order early stop, tensorboard,
\* checkpoint; each is there exactly when its own flag is on.
CallbacksAssembled ==
    /\ last.op = "callbacks" => WellAssembled(last.ret)
    /\ engine.routine \in {"fit", "fit_generator"} => WellAssembled(engine.callbacks)

\* C5 witness: callbacks() ran with early stop and checkpoint on and
\* tensorboard off
CallbacksReached ==
    /\ last.op = "callbacks"
    /\ config.early_stop_enable
    /\ ~config.tensor_board_enable
    /\ config.checkpoint_enable
    /\ last.ret = <<"BaseLogger", "EarlyStopping", "ModelCheckpoint">>

\* C6 as stated: init() runs at most once over any sequence of calls.
InitAtMostOnce == initCalls <= 1

\* C6 amended: every construct() call, direct or inside train(), invokes init()
\* exactly once, and no other method invokes it; the total is the number of
\* construct() and train() calls made.
InitOncePerConstruct ==
    [][initCalls' = initCalls + (IF last'.op \in ConstructOps THEN 1 ELSE 0)]_vars

\* C6 witness: a second train() on the same wrapper has run init() again
SecondInitReached ==
    /\ last.op = "train"
    /\ initCalls = 2
    /\ callCalls = 1

\* C7 as stated: once shaped is true it stays true and no later call changes
\* the shape descriptors or their names.
ShapesSetOnce ==
    [][shaped => (shaped' /\ UNCHANGED shapeVars)]_vars

\* C7 amended: shaped starts false and never returns to false, and once it is
\* true no construct(), train(), infer(), callbacks() or optimizer() call
\* changes the shape descriptors or their names; only a later shape() call
\* that declares a shape overwrites them.
ShapesKeptExceptByShape ==
    /\ [](nOps = 0 => ~shaped)
    /\ [][shaped => (shaped' /\ (last'.op # "shape" => UNCHANGED shapeVars))]_vars

\* C7 witness: a generator-mode train() ran on a wrapper that shape() had
\* shaped
TrainAfterShapeReached ==
    /\ last.op = "train_generator"
    /\ callCalls = 0
    /\ inputs # <<>>
    /\ outputs # <<>>

\* C8: when construct() invokes init(), shaped and built are true and the input
\* and output descriptors and their names are set, also after a shape() call
\* that declared one shape only or none.
InitSeesShapes ==
    atInit # <<>> =>
       /\ atInit[1].shaped
       /\ atInit[1].built
       /\ atInit[1].inputs # <<>>
       /\ atInit[1].outputs # <<>>
       /\ atInit[1].input_names # <<>>
       /\ atInit[1].output_names # <<>>

\* C9: no call changes config or the batch_size, epochs, steps_per_epoch and
\* validation_steps fields taken from it; a generator-mode train() decides
\* about the error from the configured steps_per_epoch and its own train_size
\* alone, whatever earlier calls computed.
ConfigImmutable ==
    /\ [][UNCHANGED cfgVars]_vars
    /\ [](/\ batch_size = config.batch_size
          /\ epochs = config.epochs
          /\ steps_per_epoch = config.steps_per_epoch
          /\ validation_steps = config.validation_steps)
    /\ [](last.op = "train_generator" =>
            ((last.result = "ConfigError") <=>
               (~Truthy(config.steps_per_epoch) /\ ~Truthy(LastTrainSize))))

\* C9 witness: a second generator-mode train(), without train_size, failed on
\* the unset steps_per_epoch of the configuration
RecomputedReached ==
    /\ last.op = "train_generator"
    /\ initCalls = 2
    /\ last.result = "ConfigError"
    /\ last.train_size = Absent
    /\ config.steps_per_epoch = 0

\* C10: every generator-mode train() takes exactly one batch from the
\* generator, shaped or not and also when it ends in the configuration error;
\* fit_generator receives the generator advanced by that one item.
OneBatchPulled ==
    last.op = "train_generator" =>
       /\ last.pulled = 1
       /\ engine.routine = "fit_generator" => engine.genPos = 1

\* C10 witness: a train() on a shaped wrapper ended in the configuration error
\* and had taken its batch
PulledBeforeErrorReached ==
    /\ last.op = "train_generator"
    /\ last.result = "ConfigError"
    /\ callCalls = 0
    /\ last.pulled = 1

====
